---- MODULE Spec2Model ----
(***************************************************************************)
(* AnyBM zone.py: selection of BrandMeister repeaters and generation of    *)
(* the channels / zones / talkgroups tables.                                *)
(*                                                                         *)
(* Strings are TLA+ strings used as sequences of characters (Len, SubSeq,  *)
(* \o), so truncation, splitting and stripping are computed character by   *)
(* character as the Python code computes them.                             *)
(***************************************************************************)
EXTENDS Integers, Sequences, FiniteSets, TLC

(***************************************************************************)
(* Python string primitives                                                *)
(***************************************************************************)

\* Characters in code-point order; str comparison is by code point.
Alphabet == " #&,-./0123456789:=?ABCDEFGHIJKLMNOPQRSTUVWXYZ_abcdefghijklmnopqrstuvwxyz|ß"

Min(a, b) == IF a < b THEN a ELSE b

Max(a, b) == IF a > b THEN a ELSE b

\* s[i] (1-based), as a one-character string
Ch(s, i) == SubSeq(s, i, i)

\* ord(c)
Ord(c) == CHOOSE i \in 1..Len(Alphabet) : Ch(Alphabet, i) = c

\* s[:n], Python slice semantics (negative n counts from the end)
Take(s, n) ==
  IF n >= 0 THEN SubSeq(s, 1, Min(n, Len(s)))
  ELSE SubSeq(s, 1, Max(0, Len(s) + n))

\* s[n:] for n >= 0
Drop(s, n) == IF n >= Len(s) THEN "" ELSE SubSeq(s, n + 1, Len(s))

\* str.isspace() of one character
IsSpace(c) == c = " "

\* one character in 0..9
IsDigitCh(c) == \E i \in 1..10 : Ch("0123456789", i) = c

\* str.isdigit(): non-empty and all digits
IsDigit(s) == Len(s) > 0 /\ \A i \in 1..Len(s) : IsDigitCh(Ch(s, i))

\* ''.join(c for c in s if c.isdigit())
RECURSIVE DigitsOf(_)
DigitsOf(s) ==
  IF Len(s) = 0 THEN ""
  ELSE (IF IsDigitCh(Ch(s, 1)) THEN Ch(s, 1) ELSE "") \o DigitsOf(Drop(s, 1))

\* str.lstrip()
RECURSIVE LStrip(_)
LStrip(s) ==
  IF Len(s) > 0 /\ IsSpace(Ch(s, 1)) THEN LStrip(Drop(s, 1)) ELSE s

\* str.rstrip()
RECURSIVE RStrip(_)
RStrip(s) ==
  IF Len(s) > 0 /\ IsSpace(Ch(s, Len(s))) THEN RStrip(Take(s, Len(s) - 1)) ELSE s

\* str.strip()
Strip(s) == RStrip(LStrip(s))

\* s.startswith(p)
StartsWith(s, p) == Len(p) <= Len(s) /\ SubSeq(s, 1, Len(p)) = p

\* sub in s
Contains(sub, s) ==
  \E i \in 0..Len(s) : i + Len(sub) <= Len(s) /\ SubSeq(s, i + 1, i + Len(sub)) = sub

\* s.find(sub): index (0-based) of the first occurrence, -1 when absent
Find(sub, s) ==
  IF Contains(sub, s)
  THEN CHOOSE i \in 0..Len(s) :
         /\ i + Len(sub) <= Len(s)
         /\ SubSeq(s, i + 1, i + Len(sub)) = sub
         /\ \A j \in 0..(i - 1) : SubSeq(s, j + 1, j + Len(sub)) # sub
  ELSE -1

\* s.split(sep)[0]
BeforeSep(sep, s) == IF Contains(sep, s) THEN Take(s, Find(sep, s)) ELSE s

\* the text after the first sep (only used when sep occurs)
AfterSep(sep, s) == Drop(s, Find(sep, s) + Len(sep))

\* s.split(sep)[1] (only used when sep occurs in s)
SplitSecond(sep, s) == BeforeSep(sep, AfterSep(sep, s))

\* s.split()[0]: the first whitespace-delimited token ("" when there is none,
\* where Python raises IndexError)
FirstToken(s) == BeforeSep(" ", LStrip(s))

\* s.replace(a, b) for a one-character a
RECURSIVE Replace(_, _, _)
Replace(s, a, b) ==
  IF Len(s) = 0 THEN ""
  ELSE (IF Ch(s, 1) = a THEN b ELSE Ch(s, 1)) \o Replace(Drop(s, 1), a, b)

\* c.upper() of one character: a string, which for the sharp s has two
\* characters ('ß'.upper() == 'SS')
UpperCh(c) ==
  IF \E i \in 1..26 : Ch("abcdefghijklmnopqrstuvwxyz", i) = c
  THEN Ch("ABCDEFGHIJKLMNOPQRSTUVWXYZ",
          CHOOSE i \in 1..26 : Ch("abcdefghijklmnopqrstuvwxyz", i) = c)
  ELSE IF c = "ß" THEN "SS"
  ELSE c

\* s.upper()
RECURSIVE Upper(_)
Upper(s) == IF Len(s) = 0 THEN "" ELSE UpperCh(Ch(s, 1)) \o Upper(Drop(s, 1))

\* a < b on str (lexicographic by code point)
RECURSIVE StrLess(_, _)
StrLess(a, b) ==
  IF Len(b) = 0 THEN FALSE
  ELSE IF Len(a) = 0 THEN TRUE
  ELSE IF Ch(a, 1) = Ch(b, 1) THEN StrLess(Drop(a, 1), Drop(b, 1))
  ELSE Ord(Ch(a, 1)) < Ord(Ch(b, 1))

\* int(s) for a digit string
RECURSIVE StrToInt(_)
StrToInt(s) ==
  IF Len(s) = 0 THEN 0
  ELSE 10 * StrToInt(Take(s, Len(s) - 1)) + (Ord(Ch(s, Len(s))) - Ord("0"))

\* str(n) for n >= 0
RECURSIVE IntToStr(_)
IntToStr(n) ==
  IF n < 10 THEN Ch("0123456789", n + 1)
  ELSE IntToStr(n \div 10) \o Ch("0123456789", (n % 10) + 1)

(***************************************************************************)
(* Bounds of the model                                                     *)
(***************************************************************************)

\* longest raw repeater list of the selection runs
MaxRawSel == 3

(***************************************************************************)
(* State                                                                   *)
(***************************************************************************)

VARIABLES
  args,              \* parsed command line (zone.py:50)
  output_dir,        \* the output directory exists
  pc,                \* position in the script
  idx,               \* index of the running loop (item or channel)
  json_list,         \* content of BM.json (zone.py:102)
  filtered_list,     \* global filtered_list (zone.py:59)
  existing,          \* global existing: callsign -> occurrences (zone.py:61)
  output_list,       \* global output_list (zone.py:60)
  unique_talkgroups, \* set of talkgroup ids of the first pass (zone.py:256)
  env,               \* what the run finds: the template files, the
                     \* talkgroups.csv left in the output directory and
                     \* the talkgroup-name service
  tgApi,             \* the talkgroup-lookup service: repeater id -> response
  apiChanged,        \* the service's data changed during the run
  talkgroups_csv,    \* <output>/talkgroups.csv
  channels_csv,      \* <output>/channels.csv
  zones_csv,         \* <output>/zones.csv
  channels_writable, \* open(channels.csv, 'w') succeeds once the directory exists
  failed_first,      \* ids of the repeaters whose lookup of the first pass failed
  run,               \* 1 in the first run of the script, 2 in the second
  first              \* the tables the first run left

vars == <<args, output_dir, pc, idx, json_list, filtered_list, existing, output_list,
          unique_talkgroups, env, tgApi, apiChanged, talkgroups_csv,
          channels_csv, zones_csv, channels_writable, failed_first, run, first>>

\* what one run of the script leaves alone outside its own globals and files
notRun == <<channels_writable, run, first>>

\* what filter_list leaves alone
notFilter == <<args, output_dir, idx, json_list, output_list, unique_talkgroups, env, tgApi,
               apiChanged, talkgroups_csv, channels_csv, zones_csv,
               channels_writable, failed_first, run, first>>

\* a file: whether it exists, and its rows (channels.csv and zones.csv: the
\* rows below the header row, which the script writes itself)
NoFile == [exists |-> FALSE, rows |-> <<>>]

File(rows) == [exists |-> TRUE, rows |-> rows]

\* the tables of a run that has not happened
NoTables == [channels |-> NoFile, zones |-> NoFile, talkgroups |-> NoFile]

\* the value of an option that was not given (Python None)
None == "<None>"

\* A repeater id is a JSON number or a numeric string: isStr tells which,
\* s is str(id).
IntId(s) == [isStr |-> FALSE, s |-> s]

StrId(s) == [isStr |-> TRUE, s |-> s]

\* One element of BM.json.  dist stands for the great-circle distance in km
\* between (lat, lng) and the reference point (check_distance); pep is
\* str(item['pep']), hasPep whether the key is present.
Repeater(id, callsign, rx, tx, city, dist, hasPep, pep) ==
  [id |-> id, callsign |-> callsign, rx |-> rx, tx |-> tx, colorcode |-> "1",
   city |-> city, dist |-> dist, hasPep |-> hasPep, pep |-> pep]

\* the command line: -n, -b, -t, -m, -q/-lat/-lon, -r, -p, -6, -zc, -cs, -tg,
\* --city-prefix (zone.py:17-50)
Args(band, type, hasMcc, mcc, hasLoc, pep, six, callsign, talkgroups, cityPrefix, name, zc) ==
  [band |-> band, type |-> type, hasMcc |-> hasMcc, mcc |-> mcc, hasLoc |-> hasLoc,
   radius |-> 100, pep |-> pep, six |-> six, callsign |-> callsign,
   talkgroups |-> talkgroups, city_prefix |-> cityPrefix, name |-> name,
   zone_capacity |-> zc]

\* all sequences over S of length at most n
SeqUpTo(S, n) == UNION {[1..k -> S] : k \in 0..n}

(***************************************************************************)
(* filter_list                                                             *)
(***************************************************************************)

\* the sort key of zone.py:103: (k['callsign'], int(k['id']))
KeyLess(a, b) ==
  \/ StrLess(a.callsign, b.callsign)
  \/ a.callsign = b.callsign /\ StrToInt(a.id.s) < StrToInt(b.id.s)

\* insertion of x behind every element whose key is not greater (stable)
RECURSIVE InsertSorted(_, _)
InsertSorted(x, s) ==
  IF Len(s) = 0 THEN <<x>>
  ELSE IF KeyLess(x, Head(s)) THEN <<x>> \o s
  ELSE <<Head(s)>> \o InsertSorted(x, Tail(s))

\* mutant of SortedList: the list is taken in the order of BM.json
SortedList_Unsorted(s) == s

\* sorted(json_list, key=...): stable, ascending
RECURSIVE SortedList(_)
SortedList(s) ==
  IF Len(s) = 0 THEN <<>>
  ELSE InsertSorted(s[Len(s)], SortedList(SubSeq(s, 1, Len(s) - 1)))

\* zone.py:106-109: the band filter lets the item through
BandOk(a, item) ==
  \/ a.band = "both"
  \/ a.band = "vhf" /\ StartsWith(item.rx, "1")
  \/ a.band = "uhf" /\ StartsWith(item.rx, "4")

\* zone.py:111-123: is_starts (args.mcc, a string or a list of strings, is
\* the tuple of its prefixes; hasMcc tells whether -m was given)
MccOk(a, item) == \E i \in 1..Len(a.mcc) : StartsWith(item.id.s, a.mcc[i])

\* zone.py:129-135: the power filter skips the item
PepSkip(a, item) ==
  \/ ~IsDigit(item.pep)
  \/ item.pep = "0"
  \/ a.pep # "0" /\ StrToInt(item.pep) < StrToInt(a.pep)

\* zone.py:140-141: the callsign filter lets the item through; the callsign
\* is the one of BM.json, the normalization comes after
CallsignOk(a, item) ==
  a.callsign = None \/ Contains(a.callsign, item.callsign)

\* zone.py:143-146: the callsign after normalization
NormCallsign(item) ==
  FirstToken(IF item.callsign = "" THEN item.id.s ELSE item.callsign)

\* zone.py:143-146 raises: an int has no split(); split() of blanks is empty
NormRaises(item) ==
  \/ item.callsign = "" /\ ~item.id.isStr
  \/ FirstToken(IF item.callsign = "" THEN item.id.s ELSE item.callsign) = ""

\* mutant of IsDuplicate: compares the raw callsign, not the normalized one
IsDuplicate_RawCallsign(fl, item, cs) ==
  \E i \in 1..Len(fl) :
    fl[i].rx = item.rx /\ fl[i].tx = item.tx /\ fl[i].callsign = item.callsign

\* zone.py:148-150
IsDuplicate(fl, item, cs) ==
  \E i \in 1..Len(fl) :
    fl[i].rx = item.rx /\ fl[i].tx = item.tx /\ fl[i].callsign = cs

\* mutant of Bump: a callsign seen before keeps its count
Bump_NoIncrement(ex, cs) ==
  IF cs \in DOMAIN ex THEN ex
  ELSE [c \in DOMAIN ex \cup {cs} |-> IF c = cs THEN 1 ELSE ex[c]]

\* existing[callsign] += 1 (zone.py:152-153)
Bump(ex, cs) ==
  IF cs \in DOMAIN ex THEN [ex EXCEPT ![cs] = @ + 1]
  ELSE [c \in DOMAIN ex \cup {cs} |-> IF c = cs THEN 1 ELSE ex[c]]

\* the retained record: callsign normalized, turn added (zone.py:146, 154)
Retained(item, cs, turn) ==
  [id |-> item.id, callsign |-> cs, rx |-> item.rx, tx |-> item.tx,
   colorcode |-> item.colorcode, city |-> item.city, dist |-> item.dist,
   hasPep |-> item.hasPep, pep |-> item.pep, turn |-> turn]

\* one iteration of the loop of zone.py:105-156 on accumulator acc
FilterStep(a, acc, item) ==
  IF acc.crashed THEN acc
  ELSE IF ~BandOk(a, item) THEN acc
  ELSE IF a.type = "mcc" /\ ~a.hasMcc THEN [acc EXCEPT !.crashed = TRUE]
  ELSE IF a.type = "mcc" /\ ~MccOk(a, item) THEN acc
  ELSE IF a.type \in {"qth", "gps"} /\ ~a.hasLoc THEN [acc EXCEPT !.crashed = TRUE]
  ELSE IF a.type \in {"qth", "gps"} /\ item.dist > a.radius THEN acc
  ELSE IF a.pep # None /\ ~item.hasPep THEN [acc EXCEPT !.crashed = TRUE]
  ELSE IF a.pep # None /\ PepSkip(a, item) THEN acc
  ELSE IF a.six /\ Len(item.id.s) # 6 THEN acc
  ELSE IF ~CallsignOk(a, item) THEN acc
  ELSE IF NormRaises(item) THEN [acc EXCEPT !.crashed = TRUE]
  ELSE LET cs == NormCallsign(item) IN
       IF IsDuplicate(acc.fl, item, cs) THEN acc
       ELSE LET ex == Bump(acc.ex, cs) IN
            [fl |-> Append(acc.fl, Retained(item, cs, ex[cs])),
             ex |-> ex, crashed |-> FALSE]

\* the loop of zone.py:105-156 over the sorted list
RECURSIVE FilterLoop(_, _, _)
FilterLoop(a, acc, s) ==
  IF Len(s) = 0 THEN acc
  ELSE FilterLoop(a, FilterStep(a, acc, Head(s)), Tail(s))

\* filter_list(): an uncaught exception ends the script
FilterList ==
  /\ pc = "filter"
  /\ LET r == FilterLoop(args, [fl |-> filtered_list, ex |-> existing, crashed |-> FALSE],
                         SortedList(json_list)) IN
       /\ filtered_list' = r.fl
       /\ existing' = r.ex
       /\ pc' = IF r.crashed THEN "crashed" ELSE "process"
  /\ UNCHANGED notFilter

(***************************************************************************)
(* Names (format_channel, process_channels, write_channels_csv)            *)
(***************************************************************************)

\* longest name the radio accepts (zone.py:211, 386, 475, 500, 600)
NameLimit == 16

\* zone.py:203-204 (also 498-499, 512-513, 625-626): the city abbreviation
CityAbbr(cityField) ==
  LET city == Strip(BeforeSep(",", cityField)) IN
    IF Len(city) >= 3 THEN Upper(Take(city, 3))
    ELSE Upper(Take(city \o "XXX", 3))

\* zone.py:209-217 (also 630-637): the channel alias of one timeslot
ChannelAlias(callsign, cityField, slot) ==
  LET city_abbr == CityAbbr(cityField)
      base_name == callsign \o "." \o city_abbr
      ts_suffix == " TS" \o IntToStr(slot)
      max_callsign_len == NameLimit - Len("." \o city_abbr \o ts_suffix)
  IN IF Len(base_name \o ts_suffix) > NameLimit
     THEN Take(callsign, max_callsign_len) \o "." \o city_abbr \o ts_suffix
     ELSE base_name \o ts_suffix

\* the URL column of output_list (zone.py:196, 220)
RepeaterUrl(item) == "https://brandmeister.network/?page=repeater&id=" \o item.id.s

\* one element of output_list: [name, rx, tx, cc, city, url]; the channel
\* receives on the repeater's tx and transmits on its rx
Channel(name, item, url) ==
  [name |-> name, rx |-> item.tx, tx |-> item.rx, cc |-> item.colorcode,
   city |-> item.city, url |-> url]

\* format_channel(item): the two entries appended to output_list
FormatChannel(item) ==
  << Channel(ChannelAlias(item.callsign, item.city, 1), item, RepeaterUrl(item)),
     Channel(ChannelAlias(item.callsign, item.city, 2), item, RepeaterUrl(item)) >>

\* format_talkgroup_channel(item, tg_id, timeslot): the entry appended
FormatTalkgroupChannel(item, tg) ==
  Channel(item.callsign, item, RepeaterUrl(item) \o " TG" \o tg.s)

\* zone.py:381-393: zone_alias of a repeater in talkgroup mode
ZoneAlias(callsign, cityField) ==
  LET city == Strip(BeforeSep(",", cityField)) IN
    Take(IF Len(callsign) + 1 >= NameLimit THEN Take(callsign, NameLimit)
         ELSE callsign \o "_" \o Take(Replace(city, " ", ""), 15 - Len(callsign)),
         NameLimit)

(***************************************************************************)
(* Chunks of the standard mode (zone.py:408, 610)                          *)
(***************************************************************************)

\* mutant of NumChunks: the last, shorter chunk is dropped
NumChunks_Floor(n, c) == IF c > 0 THEN n \div c ELSE 0

\* len(channel_chunks) = len(range(0, n, c)), empty for a negative step
NumChunks(n, c) == IF c > 0 THEN (n + c - 1) \div c ELSE 0

\* channel_chunks[k - 1], k = 1..NumChunks
Chunk(fl, c, k) == SubSeq(fl, (k - 1) * c + 1, Min(k * c, Len(fl)))

\* the list built by appending ss[1], ..., ss[n] in turn
RECURSIVE Concat(_)
Concat(ss) == IF Len(ss) = 0 THEN <<>> ELSE Head(ss) \o Concat(Tail(ss))

\* output_list after the loop of zone.py:411-426: every chunk starts from an
\* empty list, so the channels of the last chunk remain
StandardOutput(fl, c, out) ==
  IF NumChunks(Len(fl), c) = 0 THEN out
  ELSE LET chunk == Chunk(fl, c, NumChunks(Len(fl), c))
       IN Concat([k \in 1..Len(chunk) |-> FormatChannel(chunk[k])])

(***************************************************************************)
(* The collaborators                                                       *)
(***************************************************************************)

\* A talkgroup id as the lookup service returns it: a JSON number or a
\* string; s is str(tg_id).
IntTg(s) == [isStr |-> FALSE, s |-> s]

StrTg(s) == [isStr |-> TRUE, s |-> s]

\* one entry of the service's answer; slot 0 stands for a missing slot
Entry(tg, slot) == [talkgroup |-> tg, slot |-> slot]

\* an answer of the service, and a failed request
Answer(entries) == [ok |-> TRUE, entries |-> entries]

Failure == [ok |-> FALSE, entries |-> <<>>]

\* zone.py:180-182: the (talkgroup, slot) pairs of the entries that have a slot
RECURSIVE PairsOf(_)
PairsOf(entries) ==
  IF Len(entries) = 0 THEN <<>>
  ELSE (IF Head(entries).slot # 0 THEN <<Head(entries)>> ELSE <<>>)
       \o PairsOf(Tail(entries))

\* the request of get_talkgroup_channels raises (zone.py:174-176, 185)
LookupFails(api, id) == ~(id.s \in DOMAIN api /\ api[id.s].ok)

\* get_talkgroup_channels(repeater_id): [] when the request fails
GetTalkgroupChannels(api, id) ==
  IF id.s \in DOMAIN api /\ api[id.s].ok THEN PairsOf(api[id.s].entries) ELSE <<>>

\* data['Name'] of GET talkgroup/<key>, "" when the request fails or the
\* answer has no name (zone.py:330-342, 483-490)
LookupName(names, key) == IF key \in DOMAIN names THEN names[key] ELSE ""

(***************************************************************************)
(* process_channels, talkgroup mode: talkgroups.csv (zone.py:267-363)      *)
(***************************************************************************)

\* a < b on int, both given by their decimal digits
NumLess(a, b) == Len(a) < Len(b) \/ (Len(a) = Len(b) /\ StrLess(a, b))

\* a < b on talkgroup ids of one type
TgLess(a, b) == IF a.isStr THEN StrLess(a.s, b.s) ELSE NumLess(a.s, b.s)

\* sorted(unique_talkgroups) raises TypeError on str against int
SortRaises(S) == \E a, b \in S : a.isStr # b.isStr

\* sorted(unique_talkgroups) (zone.py:321)
RECURSIVE SortedTgs(_)
SortedTgs(S) ==
  IF S = {} THEN <<>>
  ELSE LET m == CHOOSE x \in S : \A y \in S \ {x} : TgLess(x, y)
       IN <<m>> \o SortedTgs(S \ {m})

\* mutant of ExistingTgIds: no Radio ID of the file counts as known
ExistingTgIds_None(rows) == {}

\* zone.py:314-317: the Radio IDs of the rows below the first
ExistingTgIds(rows) ==
  {rows[k][2] : k \in {j \in 2..Len(rows) : Len(rows[j]) > 1 /\ rows[j][2] # ""}}

\* mutant of FetchedName: a lookup without a name leaves the name empty
FetchedName_Empty(names, numeric_tg_id) ==
  IF LookupName(names, numeric_tg_id) # "" THEN RStrip(LookupName(names, numeric_tg_id))
  ELSE ""

\* zone.py:326-342: the name of a new talkgroup
FetchedName(names, numeric_tg_id) ==
  IF LookupName(names, numeric_tg_id) # "" THEN RStrip(LookupName(names, numeric_tg_id))
  ELSE numeric_tg_id

\* zone.py:320-346: new_rows, for the sorted ids not yet handled
RECURSIVE NewRows(_, _, _, _, _)
NewRows(tgs, existing_tg_ids, names, nrows, new_rows) ==
  IF Len(tgs) = 0 THEN new_rows
  ELSE LET numeric_tg_id == DigitsOf(Head(tgs).s) IN
       NewRows(Tail(tgs), existing_tg_ids, names, nrows,
               IF numeric_tg_id # "" /\ numeric_tg_id \notin existing_tg_ids
               THEN Append(new_rows,
                           <<IntToStr(nrows + Len(new_rows)), numeric_tg_id,
                             FetchedName(names, numeric_tg_id), "Group Call", "None">>)
               ELSE new_rows)

\* zone.py:280-302: talkgroups.csv after the templates are copied
AfterTemplates(e, file) ==
  IF e.custom.exists THEN e.custom
  ELSE IF ~file.exists /\ e.default.exists THEN e.default
  ELSE file

\* zone.py:304-363 raises (and the except of 362 leaves the file as it is):
\* no file to read, an empty file, ids that do not sort
UpdateRaises(file, tgs) ==
  \/ ~file.exists
  \/ Len(file.rows) = 0
  \/ SortRaises(tgs)

\* mutant of UpdatedTalkgroups: the data rows of the file are not written back
UpdatedTalkgroups_HeaderOnly(file, tgs, names) ==
  File(Take(file.rows, 2) \o NewRows(SortedTgs(tgs), ExistingTgIds(file.rows), names,
                                      Len(file.rows), <<>>))

\* zone.py:348-359: the rows written back, followed by the new rows; a
\* file here holds all its rows, header rows included
UpdatedTalkgroups(file, tgs, names) ==
  File(file.rows \o NewRows(SortedTgs(tgs), ExistingTgIds(file.rows), names,
                            Len(file.rows), <<>>))

(***************************************************************************)
(* write_channels_csv: one row (zone.py:451-549)                           *)
(***************************************************************************)

\* zone.py:461, 521: the channel carries a talkgroup
IsTgChannel(a, channel) == a.talkgroups /\ Contains("TG", channel.url)

\* zone.py:463-465: tg_id, the text between the first and the second "TG"
TgIdOf(channel) == Strip(SplitSecond("TG", channel.url))

\* zone.py:467-478: the name talkgroups.csv has for tg_id, "Simplex" when it
\* has none (no file, an empty file, no row with this Radio ID and a name)
TableName(file, tg_id) ==
  LET hits == {k \in 2..Len(file.rows) :
                 /\ Len(file.rows[k]) > 2
                 /\ file.rows[k][2] = tg_id
                 /\ file.rows[k][3] # ""}
  IN IF file.exists /\ hits # {}
     THEN RStrip(Take(file.rows[CHOOSE k \in hits : \A m \in hits : k <= m][3], NameLimit))
     ELSE "Simplex"

\* zone.py:481-490: contact_name after the live lookup
ResolvedName(file, names, tg_id) ==
  IF TableName(file, tg_id) # "Simplex" THEN TableName(file, tg_id)
  ELSE IF LookupName(names, tg_id) # "" THEN RStrip(Take(LookupName(names, tg_id), NameLimit))
  ELSE "Simplex"

\* zone.py:496-497, 510-511, 524-525: the items of filtered_list on the
\* channel's frequency pair
Matches(fl, channel) ==
  {k \in 1..Len(fl) : fl[k].tx = channel.rx /\ fl[k].rx = channel.tx}

FirstMatch(fl, channel) ==
  CHOOSE k \in Matches(fl, channel) : \A m \in Matches(fl, channel) : k <= m

\* zone.py:492-517: channel_name of a talkgroup channel; text is the
\* contact name, or the talkgroup id when no name was found
TgChannelName(a, fl, channel, text) ==
  IF a.city_prefix
  THEN IF Matches(fl, channel) # {}
       THEN RStrip(Take(CityAbbr(fl[FirstMatch(fl, channel)].city) \o "." \o text, NameLimit))
       ELSE channel.name
  ELSE RStrip(text)

\* zone.py:523-534: the slot of a talkgroup channel
RECURSIVE SlotIn(_, _)
SlotIn(pairs, tg_id) ==
  IF Len(pairs) = 0 THEN "1"
  ELSE IF Head(pairs).talkgroup.s = tg_id THEN IntToStr(Head(pairs).slot)
  ELSE SlotIn(Tail(pairs), tg_id)

TgSlot(fl, api, channel, tg_id) ==
  IF Matches(fl, channel) = {} THEN "1"
  ELSE SlotIn(GetTalkgroupChannels(api, fl[FirstMatch(fl, channel)].id), tg_id)

\* zone.py:537-542: the slot of a standard channel, read from its name
NameSlot(channel_name) ==
  IF Contains("TS1", channel_name) THEN "1"
  ELSE IF Contains("TS2", channel_name) THEN "2"
  ELSE "1"

\* the row of channels.csv written for output_list[n] (the columns that vary)
ChannelRow(a, fl, file, names, api, channel, n) ==
  IF IsTgChannel(a, channel)
  THEN LET tg_id == TgIdOf(channel)
           contact == ResolvedName(file, names, tg_id)
           text == IF contact = "Simplex" THEN tg_id ELSE contact
       IN [no |-> IntToStr(n), name |-> TgChannelName(a, fl, channel, text),
           rx |-> channel.rx, tx |-> channel.tx, contact |-> text,
           tgid |-> tg_id, cc |-> channel.cc,
           slot |-> TgSlot(fl, api, channel, tg_id)]
  ELSE [no |-> IntToStr(n), name |-> channel.name, rx |-> channel.rx,
        tx |-> channel.tx, contact |-> "Simplex", tgid |-> "99",
        cc |-> channel.cc, slot |-> NameSlot(channel.name)]

(***************************************************************************)
(* write_zones_csv: the rows (zone.py:569-648)                             *)
(***************************************************************************)

\* the member names of the rows of channels.csv on the item's frequency pair
\* (zone.py:593-597)
RECURSIVE MembersOf(_, _)
MembersOf(rows, item) ==
  IF Len(rows) = 0 THEN <<>>
  ELSE (IF Head(rows).rx = item.tx /\ Head(rows).tx = item.rx
        THEN <<Head(rows).name>> ELSE <<>>) \o MembersOf(Tail(rows), item)

\* a sequence of n copies of x
Copies(x, n) == [k \in 1..n |-> x]

\* zone.py:578-605: the zone row of one repeater in talkgroup mode
TgZoneRow(item, channels, zone_num) ==
  LET city == Strip(BeforeSep(",", item.city))
      zone_name == item.callsign \o "_" \o Replace(city, " ", "_")
      channel_names == IF channels.exists THEN MembersOf(channels.rows, item) ELSE <<>>
  IN [no |-> IntToStr(zone_num), name |-> Take(zone_name, NameLimit),
      members |-> channel_names,
      rxs |-> Copies(item.tx, Len(channel_names)),
      txs |-> Copies(item.rx, Len(channel_names))]

\* the aliases of both timeslots of one item (zone.py:629-639)
BothAliases(item) ==
  <<ChannelAlias(item.callsign, item.city, 1), ChannelAlias(item.callsign, item.city, 2)>>

BothRx(item) == <<item.tx, item.tx>>

BothTx(item) == <<item.rx, item.rx>>

\* zone.py:613-616: the zone name of chunk chunk_num
StdZoneName(name, nchunks, chunk_num) ==
  IF nchunks = 1 THEN name ELSE name \o " #" \o IntToStr(chunk_num)

\* zone.py:612-648: the zone row of chunk chunk_num in standard mode
StdZoneRow(a, fl, chunk_num) ==
  LET chunk == Chunk(fl, a.zone_capacity, chunk_num) IN
    [no |-> IntToStr(chunk_num),
     name |-> StdZoneName(a.name, NumChunks(Len(fl), a.zone_capacity), chunk_num),
     members |-> Concat([k \in 1..Len(chunk) |-> BothAliases(chunk[k])]),
     rxs |-> Concat([k \in 1..Len(chunk) |-> BothRx(chunk[k])]),
     txs |-> Concat([k \in 1..Len(chunk) |-> BothTx(chunk[k])])]

\* all zone rows of the standard mode
StdZoneRows(a, fl) ==
  [k \in 1..NumChunks(Len(fl), a.zone_capacity) |-> StdZoneRow(a, fl, k)]

(***************************************************************************)
(* The script, step by step (zone.py:50-70, 665-674)                       *)
(***************************************************************************)

\* zone.py:50-70: argument handling; parser.error and a locator that is not
\* given end the script
Startup ==
  /\ pc = "start"
  /\ pc' = IF (args.name = None /\ ~args.talkgroups) \/ (args.type = "qth" /\ ~args.hasLoc)
           THEN "crashed" ELSE "download"
  /\ UNCHANGED <<args, output_dir, idx, json_list, filtered_list, existing, output_list,
                 unique_talkgroups, env, tgApi, apiChanged, talkgroups_csv,
                 channels_csv, zones_csv>>
  /\ UNCHANGED <<notRun, failed_first>>

\* download_file(): BM.json is in place
DownloadFile ==
  /\ pc = "download"
  /\ pc' = "filter"
  /\ UNCHANGED <<args, output_dir, idx, json_list, filtered_list, existing, output_list,
                 unique_talkgroups, env, tgApi, apiChanged, talkgroups_csv,
                 channels_csv, zones_csv>>
  /\ UNCHANGED <<notRun, failed_first>>

\* process_channels(), standard mode (zone.py:406-426); range() with a zero
\* step raises
ProcessStandard ==
  /\ pc = "process"
  /\ ~args.talkgroups
  /\ IF args.zone_capacity = 0
     THEN pc' = "crashed" /\ UNCHANGED output_list
     ELSE /\ output_list' = StandardOutput(filtered_list, args.zone_capacity, output_list)
          /\ pc' = "write_channels"
  /\ UNCHANGED <<args, output_dir, idx, json_list, filtered_list, existing, unique_talkgroups,
                 env, tgApi, apiChanged, talkgroups_csv, channels_csv, zones_csv>>
  /\ UNCHANGED <<notRun, failed_first>>

\* process_channels(), talkgroup mode, first pass (zone.py:259-265): one item
CollectTalkgroups ==
  /\ pc = "process"
  /\ args.talkgroups
  /\ idx <= Len(filtered_list)
  /\ LET tg_channels == GetTalkgroupChannels(tgApi, filtered_list[idx].id) IN
       unique_talkgroups' =
         unique_talkgroups \cup {tg_channels[k].talkgroup : k \in 1..Len(tg_channels)}
  /\ failed_first' =
       IF LookupFails(tgApi, filtered_list[idx].id)
       THEN failed_first \cup {filtered_list[idx].id.s} ELSE failed_first
  /\ idx' = idx + 1
  /\ UNCHANGED <<args, output_dir, pc, json_list, filtered_list, existing, output_list, env,
                 tgApi, apiChanged, talkgroups_csv, channels_csv, zones_csv>>
  /\ UNCHANGED notRun

\* process_channels(), talkgroup mode: the output directory is created,
\* talkgroups.csv updated, output_list emptied (zone.py:267-366)
UpdateTalkgroupsCsv ==
  /\ pc = "process"
  /\ args.talkgroups
  /\ idx > Len(filtered_list)
  /\ LET file == AfterTemplates(env, talkgroups_csv) IN
       talkgroups_csv' =
         IF UpdateRaises(file, unique_talkgroups) THEN file
         ELSE UpdatedTalkgroups(file, unique_talkgroups, env.names)
  /\ output_dir' = TRUE
  /\ output_list' = <<>>
  /\ idx' = 1
  /\ pc' = "create"
  /\ UNCHANGED <<args, json_list, filtered_list, existing, unique_talkgroups, env,
                 tgApi, apiChanged, channels_csv, zones_csv>>
  /\ UNCHANGED <<notRun, failed_first>>

\* the entries format_talkgroup_channel appends for one item (zone.py:373-374)
TalkgroupChannels(item, tg_channels) ==
  [k \in 1..Len(tg_channels) |-> FormatTalkgroupChannel(item, tg_channels[k].talkgroup)]

\* process_channels(), talkgroup mode, second pass (zone.py:367-396): one item
CreateChannels ==
  /\ pc = "create"
  /\ idx <= Len(filtered_list)
  /\ output_list' = output_list \o
       TalkgroupChannels(filtered_list[idx],
                         GetTalkgroupChannels(tgApi, filtered_list[idx].id))
  /\ idx' = idx + 1
  /\ UNCHANGED <<args, output_dir, pc, json_list, filtered_list, existing, unique_talkgroups,
                 env, tgApi, apiChanged, talkgroups_csv, channels_csv, zones_csv>>
  /\ UNCHANGED <<notRun, failed_first>>

\* process_channels() returns
EndProcess ==
  /\ pc = "create"
  /\ idx > Len(filtered_list)
  /\ pc' = "write_channels"
  /\ UNCHANGED <<args, output_dir, idx, json_list, filtered_list, existing, output_list,
                 unique_talkgroups, env, tgApi, apiChanged, talkgroups_csv,
                 channels_csv, zones_csv>>
  /\ UNCHANGED <<notRun, failed_first>>

\* open(channels_file, 'w') of zone.py:435 succeeds: the directory is there
\* and the file can be opened for writing
ChannelsOpen == output_dir /\ channels_writable

\* write_channels_csv(): the file is opened and the header written
\* (zone.py:433-448); the exception of a failing open() ends the script
WriteChannelsOpen ==
  /\ pc = "write_channels"
  /\ channels_csv' = IF ChannelsOpen THEN File(<<>>) ELSE channels_csv
  /\ idx' = 1
  /\ pc' = IF ChannelsOpen THEN "write_rows" ELSE "crashed_channels"
  /\ UNCHANGED <<args, output_dir, json_list, filtered_list, existing, output_list,
                 unique_talkgroups, env, tgApi, apiChanged, talkgroups_csv, zones_csv>>
  /\ UNCHANGED <<notRun, failed_first>>

\* write_channels_csv(): one row (zone.py:451-549)
WriteChannelsRow ==
  /\ pc = "write_rows"
  /\ idx <= Len(output_list)
  /\ channels_csv' =
       File(Append(channels_csv.rows,
                   ChannelRow(args, filtered_list, talkgroups_csv, env.names, tgApi,
                              output_list[idx], idx)))
  /\ idx' = idx + 1
  /\ UNCHANGED <<args, output_dir, pc, json_list, filtered_list, existing, output_list,
                 unique_talkgroups, env, tgApi, apiChanged, talkgroups_csv, zones_csv>>
  /\ UNCHANGED <<notRun, failed_first>>

\* write_channels_csv() returns (zone.py:551, 672)
WriteChannelsClose ==
  /\ pc = "write_rows"
  /\ idx > Len(output_list)
  /\ pc' = IF args.talkgroups THEN "write_talkgroups" ELSE "write_zones"
  /\ UNCHANGED <<args, output_dir, idx, json_list, filtered_list, existing, output_list,
                 unique_talkgroups, env, tgApi, apiChanged, talkgroups_csv,
                 channels_csv, zones_csv>>
  /\ UNCHANGED <<notRun, failed_first>>

\* write_talkgroups_csv(): prints, writes nothing (zone.py:653-662)
WriteTalkgroupsCsv ==
  /\ pc = "write_talkgroups"
  /\ pc' = "write_zones"
  /\ UNCHANGED <<args, output_dir, idx, json_list, filtered_list, existing, output_list,
                 unique_talkgroups, env, tgApi, apiChanged, talkgroups_csv,
                 channels_csv, zones_csv>>
  /\ UNCHANGED <<notRun, failed_first>>

\* write_zones_csv(): the file is opened and the header written
\* (zone.py:559-567)
WriteZonesOpen ==
  /\ pc = "write_zones"
  /\ zones_csv' = File(<<>>)
  /\ idx' = 1
  /\ pc' = "zones_rows"
  /\ UNCHANGED <<args, output_dir, json_list, filtered_list, existing, output_list,
                 unique_talkgroups, env, tgApi, apiChanged, talkgroups_csv,
                 channels_csv>>
  /\ UNCHANGED <<notRun, failed_first>>

\* write_zones_csv(), talkgroup mode: one item (zone.py:572-607)
WriteZoneTg ==
  /\ pc = "zones_rows"
  /\ args.talkgroups
  /\ idx <= Len(filtered_list)
  /\ zones_csv' =
       IF Len(GetTalkgroupChannels(tgApi, filtered_list[idx].id)) = 0 THEN zones_csv
       ELSE File(Append(zones_csv.rows,
                        TgZoneRow(filtered_list[idx], channels_csv,
                                  Len(zones_csv.rows) + 1)))
  /\ idx' = idx + 1
  /\ UNCHANGED <<args, output_dir, pc, json_list, filtered_list, existing, output_list,
                 unique_talkgroups, env, tgApi, apiChanged, talkgroups_csv,
                 channels_csv>>
  /\ UNCHANGED <<notRun, failed_first>>

\* write_zones_csv(), talkgroup mode, returns
WriteZonesClose ==
  /\ pc = "zones_rows"
  /\ args.talkgroups
  /\ idx > Len(filtered_list)
  /\ pc' = "done"
  /\ UNCHANGED <<args, output_dir, idx, json_list, filtered_list, existing, output_list,
                 unique_talkgroups, env, tgApi, apiChanged, talkgroups_csv,
                 channels_csv, zones_csv>>
  /\ UNCHANGED <<notRun, failed_first>>

\* write_zones_csv(), standard mode (zone.py:608-650)
WriteZonesStd ==
  /\ pc = "zones_rows"
  /\ ~args.talkgroups
  /\ zones_csv' = File(StdZoneRows(args, filtered_list))
  /\ pc' = "done"
  /\ UNCHANGED <<args, output_dir, idx, json_list, filtered_list, existing, output_list,
                 unique_talkgroups, env, tgApi, apiChanged, talkgroups_csv,
                 channels_csv>>
  /\ UNCHANGED <<notRun, failed_first>>

(***************************************************************************)
(* Whole runs of the script, in both modes                                 *)
(***************************************************************************)

\* longest raw repeater list of the runs in standard mode
MaxRaw == 3

\* longest raw repeater list of the runs in talkgroup mode
MaxRawTg == 2

\* The repeaters of the whole runs: two that share a frequency pair, two
\* that share callsign and city, a callsign of 16 characters holding "TS1".
RunRecords ==
  { Repeater(IntId("310001"), "K1A", "145.1", "145.7", "Boston, MA", 50, TRUE, "50"),
    Repeater(IntId("310003"), "TS1LONGCALLSIGNS", "145.1", "145.7", "New York", 50, TRUE, "50"),
    Repeater(IntId("310004"), "K1A", "439.5", "434.5", "Boston, MA", 50, TRUE, "50") }

StdArgs(name, zc) ==
  Args("both", "mcc", TRUE, <<"310">>, FALSE, None, FALSE, None, FALSE, FALSE, name, zc)

TgArgs(cityPrefix) ==
  Args("both", "mcc", TRUE, <<"310">>, FALSE, None, FALSE, None, TRUE, cityPrefix, None, 160)

RunArgs ==
  { StdArgs(name, zc) : name \in {"Home", "My favourite repeaters"}, zc \in {1, 2, 160} }
  \cup { TgArgs(FALSE), TgArgs(TRUE) }
  \cup { Args("both", "qth", FALSE, <<>>, FALSE, None, FALSE, None, FALSE, FALSE, "Home", 160),
         Args("both", "mcc", TRUE, <<"310">>, FALSE, None, FALSE, None, FALSE, FALSE, None, 160),
         Args("vhf", "mcc", FALSE, <<>>, FALSE, None, FALSE, None, FALSE, FALSE, "Home", 160) }

\* the two header rows of a talkgroups table
TgHeader ==
  << <<"No.", "Radio ID", "Name", "Call Type", "Call Alert">>,
     <<"#", "ID", "Alias", "Type", "Alert">> >>

\* What a run finds: whether the output directory exists, the uploaded
\* template, the default template, the talkgroups.csv of the output
\* directory, the names the name service knows.
World(outdir, custom, default, file, names) ==
  [outdir |-> outdir, custom |-> custom, default |-> default, file |-> file,
   names |-> names]

Worlds ==
  { \* nothing in place, the name service down
    World(FALSE, NoFile, NoFile, NoFile, [k \in {} |-> ""]),
    \* the default template, headers only
    World(FALSE, NoFile, File(TgHeader), NoFile,
          ("9" :> "Local") @@ ("91" :> "World-wide") @@ ("10" :> "")),
    \* the table of an earlier run in the output directory
    World(TRUE, NoFile, NoFile,
          File(TgHeader \o << <<"1", "91", "WW", "Group Call", "None">> >>),
          ("9" :> "Regional Emergency Net") @@ ("91" :> "World-wide")),
    \* an uploaded table
    World(TRUE, File(TgHeader \o << <<"1", "9", "World wide talk group", "Group Call", "None">>,
                              <<"2", "10", "", "Group Call", "None">> >>),
          File(TgHeader), NoFile,
          ("9" :> "Local") @@ ("10" :> "Ten")) }

\* what a run in standard mode finds: an output directory, or none
StdWorlds ==
  { World(d, NoFile, NoFile, NoFile, [k \in {} |-> ""]) : d \in BOOLEAN }

\* The data of the talkgroup-lookup service: numbers; digit strings; one
\* talkgroup on both slots and ids that differ in a non-digit; a failing
\* repeater, a long id, a number beside a string.
TgApi1 ==
  ("310001" :> Answer(<<Entry(IntTg("9"), 1), Entry(IntTg("91"), 2)>>))
  @@ ("310003" :> Answer(<<Entry(IntTg("10"), 1), Entry(IntTg("91"), 0)>>))
  @@ ("310004" :> Answer(<<>>))

TgApi2 ==
  ("310001" :> Answer(<<Entry(StrTg("9"), 1), Entry(StrTg("91"), 2)>>))
  @@ ("310003" :> Answer(<<Entry(StrTg("10"), 2)>>))
  @@ ("310004" :> Failure)

TgApi3 ==
  ("310001" :> Answer(<<Entry(StrTg("91"), 1), Entry(StrTg("91"), 2)>>))
  @@ ("310003" :> Answer(<<Entry(StrTg("#91"), 1)>>))
  @@ ("310004" :> Answer(<<Entry(StrTg("91"), 1)>>))

TgApi4 ==
  ("310001" :> Failure)
  @@ ("310003" :> Answer(<<Entry(IntTg("12345678901234567"), 1)>>))
  @@ ("310004" :> Answer(<<Entry(StrTg("9"), 2)>>))

TgApis == {TgApi1, TgApi2, TgApi3, TgApi4}

\* the data the service may hold after a change of api
ApiAfter(api) ==
  IF api = TgApi1 THEN {TgApi4}
  ELSE IF api = TgApi4 THEN {TgApi1}
  ELSE {}

\* the environment: the talkgroups active on a repeater change, or the
\* service goes down or comes back, once during a run
ApiChange ==
  /\ args.talkgroups
  /\ pc \in {"process", "create", "write_channels", "write_rows", "write_talkgroups",
             "write_zones", "zones_rows"}
  /\ ~apiChanged
  /\ tgApi' \in ApiAfter(tgApi)
  /\ apiChanged' = TRUE
  /\ UNCHANGED <<args, output_dir, pc, idx, json_list, filtered_list, existing, output_list,
                 unique_talkgroups, env, talkgroups_csv, channels_csv, zones_csv>>
  /\ UNCHANGED <<notRun, failed_first>>

Init ==
  /\ args \in RunArgs
  /\ json_list \in SeqUpTo(RunRecords, IF args.talkgroups THEN MaxRawTg ELSE MaxRaw)
  /\ env \in (IF args.talkgroups THEN Worlds ELSE StdWorlds)
  /\ output_dir = env.outdir
  /\ talkgroups_csv = env.file
  /\ tgApi \in (IF args.talkgroups THEN TgApis ELSE {TgApi1})
  /\ apiChanged = FALSE
  /\ pc = "start"
  /\ idx = 1
  /\ filtered_list = <<>>
  /\ existing = [c \in {} |-> 0]
  /\ output_list = <<>>
  /\ unique_talkgroups = {}
  /\ channels_csv = NoFile
  /\ zones_csv = NoFile
  /\ channels_writable \in (IF args.talkgroups THEN {TRUE} ELSE BOOLEAN)
  /\ failed_first = {}
  /\ run = 1
  /\ first = NoTables

\* The script is started again with the same command line, over the same
\* BM.json, in the directory the first run left: the globals of zone.py:59-61
\* are new, the files stay.
Rerun ==
  /\ pc = "done"
  /\ run = 1
  /\ run' = 2
  /\ first' = [channels |-> channels_csv, zones |-> zones_csv, talkgroups |-> talkgroups_csv]
  /\ pc' = "start"
  /\ idx' = 1
  /\ filtered_list' = <<>>
  /\ existing' = [c \in {} |-> 0]
  /\ output_list' = <<>>
  /\ unique_talkgroups' = {}
  /\ failed_first' = {}
  /\ UNCHANGED <<args, output_dir, json_list, env, tgApi, apiChanged, talkgroups_csv,
                 channels_csv, zones_csv, channels_writable>>

Next ==
  \/ Startup
  \/ DownloadFile
  \/ FilterList
  \/ ProcessStandard
  \/ CollectTalkgroups
  \/ UpdateTalkgroupsCsv
  \/ CreateChannels
  \/ EndProcess
  \/ WriteChannelsOpen
  \/ WriteChannelsRow
  \/ WriteChannelsClose
  \/ WriteTalkgroupsCsv
  \/ WriteZonesOpen
  \/ WriteZoneTg
  \/ WriteZonesClose
  \/ WriteZonesStd
  \/ ApiChange
  \/ Rerun

Spec == Init /\ [][Next]_vars

(***************************************************************************)
(* Selection runs: filter_list over raw lists that exercise the sort, the  *)
(* filters, the normalization and the deduplication                        *)
(***************************************************************************)

SelRecords ==
  { Repeater(IntId("310001"), "K1A", "145.1", "145.7", "Boston, MA", 50, TRUE, "50"),
    Repeater(IntId("310002"), "K1A", "145.1", "145.7", "Boston, MA", 50, TRUE, "5"),
    Repeater(IntId("31000"), "K1A x", "145.1", "145.7", "Salem", 99, TRUE, "50"),
    Repeater(IntId("310004"), "K1A", "439.1", "434.1", "Boston, MA", 101, TRUE, "0"),
    Repeater(StrId("310005"), "", "145.1", "145.7", "Lynn", 50, TRUE, "None"),
    Repeater(IntId("310006"), "", "439.1", "434.1", "Lynn", 50, TRUE, "50"),
    Repeater(IntId("262001"), "B2B", "439.1", "434.1", "Bonn", 150, FALSE, ""),
    Repeater(IntId("310008"), " ", "145.1", "145.7", "Troy", 50, TRUE, "50") }

SelArgs ==
  { Args("both", "mcc", TRUE, <<"310">>, FALSE, None, FALSE, None, FALSE, FALSE, "Z", 160),
    Args("both", "mcc", TRUE, <<"310", "262">>, FALSE, None, FALSE, None, FALSE, FALSE, "Z", 160),
    Args("vhf", "mcc", TRUE, <<"3">>, FALSE, None, TRUE, None, FALSE, FALSE, "Z", 160),
    Args("uhf", "mcc", TRUE, <<"262", "310">>, FALSE, "0", FALSE, None, FALSE, FALSE, "Z", 160),
    Args("both", "qth", FALSE, <<>>, TRUE, "25", FALSE, None, FALSE, FALSE, "Z", 160),
    Args("both", "gps", FALSE, <<>>, TRUE, None, FALSE, "K1", FALSE, FALSE, "Z", 160),
    Args("both", "mcc", TRUE, <<"310">>, FALSE, None, FALSE, "x", FALSE, FALSE, "Z", 160),
    Args("both", "mcc", FALSE, <<>>, FALSE, None, FALSE, None, FALSE, FALSE, "Z", 160) }

NoExisting == [c \in {} |-> 0]

\* no template file, no table, a name service that knows no name
NoEnv == World(FALSE, NoFile, NoFile, NoFile, [k \in {} |-> ""])

\* a lookup service that knows no repeater
NoTgApi == [k \in {} |-> [ok |-> FALSE, entries |-> <<>>]]

InitSelect ==
  /\ args \in SelArgs
  /\ json_list \in SeqUpTo(SelRecords, MaxRawSel)
  /\ pc = "filter"
  /\ filtered_list = <<>>
  /\ existing = NoExisting
  /\ idx = 1
  /\ output_list = <<>>
  /\ unique_talkgroups = {}
  /\ env = NoEnv
  /\ output_dir = FALSE
  /\ tgApi = NoTgApi
  /\ apiChanged = FALSE
  /\ talkgroups_csv = NoFile
  /\ channels_csv = NoFile
  /\ zones_csv = NoFile
  /\ channels_writable = TRUE
  /\ failed_first = {}
  /\ run = 1
  /\ first = NoTables

NextSelect == FilterList

SpecSelect == InitSelect /\ [][NextSelect]_vars

(***************************************************************************)
(* Naming runs: whole runs over one repeater, whose callsign and city      *)
(* exercise the limits of the channel and zone names                       *)
(***************************************************************************)

\* callsigns of 3, 8, 9, 11, 15 and 16 characters
NameCallsigns ==
  {"K1A", "EIGHTCHR", "NINECHARS", "DB0LONGCALL", "CALLSIGN15CHARS", "TS1LONGCALLSIGNS"}

\* cities: with a state, with a space, of two characters, with blanks
\* around a single letter, empty, with a sharp s, long
NameCities ==
  {"Boston, MA", "New York", "NY", " a , x", "", "Aßlar", "San Luis Obispo"}

NameRecords ==
  { Repeater(IntId("310001"), cs, "145.1", "145.7", city, 50, TRUE, "50") :
      cs \in NameCallsigns, city \in NameCities }

\* the default template, the name service up
NameWorld ==
  World(TRUE, NoFile, File(TgHeader), NoFile, ("9" :> "Local") @@ ("91" :> "World-wide"))

\* the table of an earlier run in the output directory, in which a
\* talkgroup has the name "Simplex"
NameWorldSimplex ==
  World(TRUE, NoFile, NoFile,
        File(TgHeader \o << <<"1", "9", "Simplex", "Group Call", "None">>,
                            <<"2", "91", "WW", "Group Call", "None">> >>),
        ("9" :> "Local") @@ ("91" :> "World-wide"))

InitNames ==
  /\ args \in {StdArgs("Home", 160), TgArgs(FALSE), TgArgs(TRUE)}
  /\ json_list \in {<<r>> : r \in NameRecords}
  /\ env \in (IF args.talkgroups THEN {NameWorld, NameWorldSimplex} ELSE {NameWorld})
  /\ output_dir = env.outdir
  /\ talkgroups_csv = env.file
  /\ tgApi = TgApi1
  /\ apiChanged = FALSE
  /\ pc = "start"
  /\ idx = 1
  /\ filtered_list = <<>>
  /\ existing = NoExisting
  /\ output_list = <<>>
  /\ unique_talkgroups = {}
  /\ channels_csv = NoFile
  /\ zones_csv = NoFile
  /\ channels_writable = TRUE
  /\ failed_first = {}
  /\ run = 1
  /\ first = NoTables

NextNames ==
  \/ Startup
  \/ DownloadFile
  \/ FilterList
  \/ ProcessStandard
  \/ CollectTalkgroups
  \/ UpdateTalkgroupsCsv
  \/ CreateChannels
  \/ EndProcess
  \/ WriteChannelsOpen
  \/ WriteChannelsRow
  \/ WriteChannelsClose
  \/ WriteTalkgroupsCsv
  \/ WriteZonesOpen
  \/ WriteZoneTg
  \/ WriteZonesClose
  \/ WriteZonesStd

SpecNames == InitNames /\ [][NextNames]_vars

(***************************************************************************)
(* Properties of filter_list                                               *)
(***************************************************************************)

\* the item passes every filter of zone.py:106-141 and is normalized
PassesFilters(a, item) ==
  /\ BandOk(a, item)
  /\ a.type = "mcc" => MccOk(a, item)
  /\ a.type \in {"qth", "gps"} => item.dist <= a.radius
  /\ a.pep # None => ~PepSkip(a, item)
  /\ a.six => Len(item.id.s) = 6
  /\ CallsignOk(a, item)

\* the (rx, tx, normalized callsign) triple of a raw record
RawTriple(item) == <<item.rx, item.tx, NormCallsign(item)>>

\* the triple of a retained record
Triple(r) == <<r.rx, r.tx, r.callsign>>

\* raw record k is the source of retained record r
IsSourceOf(k, r) ==
  /\ json_list[k].id = r.id
  /\ RawTriple(json_list[k]) = Triple(r)
  /\ json_list[k].city = r.city
  /\ json_list[k].pep = r.pep

\* C1: after filter_list no two records of filtered_list share the triple
\* (rx, tx, normalized callsign), and the record retained for a triple comes
\* from a raw record that passes the filters and that no other passing raw
\* record of the same triple precedes in (callsign, int(id)) order.
C1_DedupFirstWins ==
  /\ \A i, j \in 1..Len(filtered_list) :
       i # j => Triple(filtered_list[i]) # Triple(filtered_list[j])
  /\ pc = "process" =>
       /\ \A i \in 1..Len(filtered_list) :
            \E k \in 1..Len(json_list) :
              /\ IsSourceOf(k, filtered_list[i])
              /\ PassesFilters(args, json_list[k])
              /\ \A m \in 1..Len(json_list) :
                   (PassesFilters(args, json_list[m])
                      /\ RawTriple(json_list[m]) = RawTriple(json_list[k]))
                   => ~KeyLess(json_list[m], json_list[k])
       /\ \A k \in 1..Len(json_list) :
            PassesFilters(args, json_list[k]) =>
              \E i \in 1..Len(filtered_list) :
                Triple(filtered_list[i]) = RawTriple(json_list[k])

\* C1 witness: three raw records of one triple passed the filters, two of them
\* with different raw callsigns, and exactly one was retained
C1_Witness ==
  /\ pc = "process"
  /\ Len(filtered_list) = 1
  /\ Len(json_list) = 3
  /\ \A k \in 1..3 : PassesFilters(args, json_list[k])
  /\ \E k, m \in 1..3 : json_list[k].callsign # json_list[m].callsign
  /\ \E k, m \in 1..3 : k # m /\ json_list[k].callsign = json_list[m].callsign
                              /\ json_list[k].id # json_list[m].id

\* C2: the turn values of the retained records of one callsign, read in
\* retention order, are 1, 2, ..., k.
C2_TurnsCount ==
  \A i \in 1..Len(filtered_list) :
    filtered_list[i].turn =
      Cardinality({j \in 1..i : filtered_list[j].callsign = filtered_list[i].callsign})

\* C2 witness: a callsign retained twice (turns 1 and 2) beside another callsign
C2_Witness ==
  /\ pc = "process"
  /\ \E i, j, k \in 1..Len(filtered_list) :
       /\ i < j
       /\ filtered_list[i].callsign = filtered_list[j].callsign
       /\ filtered_list[i].turn = 1 /\ filtered_list[j].turn = 2
       /\ filtered_list[k].callsign # filtered_list[i].callsign
       /\ filtered_list[k].turn = 1

(***************************************************************************)
(* Properties of the tables                                                *)
(***************************************************************************)

\* the data rows of a talkgroups table: the rows below the two header rows
DataRows(file) == {k \in 3..Len(file.rows) : Len(file.rows[k]) > 1}

\* the run is over in the given mode
Finished(talkgroups) == pc = "done" /\ args.talkgroups = talkgroups

\* C3: every row of the channels table has a Channel Name of at most 16
\* characters, in standard and in talkgroup mode.
C3_ChannelNamesFit ==
  \A k \in 1..Len(channels_csv.rows) : Len(channels_csv.rows[k].name) <= NameLimit

\* C4: every row of the zones table has a Zone Name of at most 16
\* characters, in talkgroup and in standard mode.
C4_ZoneNamesFit ==
  \A k \in 1..Len(zones_csv.rows) : Len(zones_csv.rows[k].name) <= NameLimit

C6_TwoRowsPerRepeater ==
  Finished(FALSE) =>
    /\ Len(channels_csv.rows) = 2 * Len(filtered_list)
    /\ \A j \in 1..Len(channels_csv.rows) :
         LET r == filtered_list[(j + 1) \div 2] IN
           /\ channels_csv.rows[j].no = IntToStr(j)
           /\ channels_csv.rows[j].name = ChannelAlias(r.callsign, r.city, 2 - (j % 2))
           /\ channels_csv.rows[j].rx = r.tx
           /\ channels_csv.rows[j].tx = r.rx

\* C7: after a run, every member of every zone row is the Channel Name of a
\* row of the channels table on the frequency pair the zone row gives for
\* that member (the tx/rx of the repeater it was generated from).
C7_ZoneMembersAreChannels ==
  pc = "done" =>
    \A k \in 1..Len(zones_csv.rows) :
      \A j \in 1..Len(zones_csv.rows[k].members) :
        \E m \in 1..Len(channels_csv.rows) :
          /\ channels_csv.rows[m].name = zones_csv.rows[k].members[j]
          /\ channels_csv.rows[m].rx = zones_csv.rows[k].rxs[j]
          /\ channels_csv.rows[m].tx = zones_csv.rows[k].txs[j]

\* C8: in talkgroup mode, after a run, every contact id of the channels
\* table is the Radio ID of exactly one data row of the talkgroups table.
C8_ContactIdsInTable ==
  Finished(TRUE) =>
    \A m \in 1..Len(channels_csv.rows) :
      Cardinality({k \in DataRows(talkgroups_csv) :
                     talkgroups_csv.rows[k][2] = channels_csv.rows[m].tgid}) = 1

\* C9: no Radio ID occurs in two data rows of the talkgroups table.
C9_RadioIdsUnique ==
  \A k, m \in DataRows(talkgroups_csv) :
    (k # m /\ talkgroups_csv.rows[k][2] # "")
      => talkgroups_csv.rows[k][2] # talkgroups_csv.rows[m][2]

\* C10: in talkgroup mode with no table in place (no uploaded template, no
\* default template, no talkgroups.csv in the output directory) the run
\* emits a talkgroups table with a row for every talkgroup id returned for
\* the retained repeaters.
C10_TableFromNothing ==
  (Finished(TRUE) /\ ~env.custom.exists /\ ~env.default.exists /\ ~env.file.exists) =>
    /\ talkgroups_csv.exists
    /\ \A tg \in unique_talkgroups :
         \E k \in DataRows(talkgroups_csv) : talkgroups_csv.rows[k][2] = DigitsOf(tg.s)

(***************************************************************************)
(* Properties of a second run                                              *)
(***************************************************************************)

\* C11: when the script has run a second time with the same command line,
\* the same BM.json and the same answers of the lookup services, in the
\* directory the first run left, the channels, zones and talkgroups tables
\* equal the tables of the first run, row for row.
C11_SecondRunSame ==
  (run = 2 /\ pc = "done" /\ ~apiChanged) =>
    /\ channels_csv = first.channels
    /\ zones_csv = first.zones
    /\ talkgroups_csv = first.talkgroups

\* C11 witness: a second run in talkgroup mode is over; the first run
\* appended rows to the table it found and wrote several channels and a zone
C11_Witness ==
  /\ run = 2 /\ pc = "done" /\ ~apiChanged
  /\ args.talkgroups
  /\ AfterTemplates(env, env.file).exists
  /\ Len(first.talkgroups.rows) > Len(AfterTemplates(env, env.file).rows)
  /\ Len(channels_csv.rows) >= 2
  /\ Len(zones_csv.rows) >= 1

(***************************************************************************)
(* Properties of the rows                                                  *)
(***************************************************************************)

\* C12: in standard mode the Slot of a channels row is the timeslot its
\* channel was generated for: format_channel appends the channel of
\* timeslot 1, then the channel of timeslot 2, so row j has slot 1 for odd j
\* and slot 2 for even j, whatever the callsign holds.
C12_SlotIsTimeslot ==
  Finished(FALSE) =>
    \A j \in 1..Len(channels_csv.rows) :
      channels_csv.rows[j].slot = IntToStr(2 - (j % 2))

\* the (talkgroup, slot) pairs the service returns for retained repeater i
PairsFor(i) == GetTalkgroupChannels(tgApi, filtered_list[i].id)

\* C13: in talkgroup mode, with the service's data unchanged during the run,
\* for every retained repeater and every (talkgroup, slot) pair returned for
\* it the channels table has a row on the repeater's frequencies whose
\* contact id is the talkgroup id and whose Slot is the pair's slot.
C13_RowPerPair ==
  (Finished(TRUE) /\ ~apiChanged) =>
    \A i \in 1..Len(filtered_list) :
      \A k \in 1..Len(PairsFor(i)) :
        \E m \in 1..Len(channels_csv.rows) :
          /\ channels_csv.rows[m].tgid = PairsFor(i)[k].talkgroup.s
          /\ channels_csv.rows[m].slot = IntToStr(PairsFor(i)[k].slot)
          /\ channels_csv.rows[m].rx = filtered_list[i].tx
          /\ channels_csv.rows[m].tx = filtered_list[i].rx

\* retained repeater i has at least one pair
HasPairs(i) == Len(PairsFor(i)) > 0

\* the names of the channels rows written for the entries of output_list
\* that were generated for retained repeater i, in order
RECURSIVE OwnNames(_, _)
OwnNames(i, n) ==
  IF n = 0 THEN <<>>
  ELSE OwnNames(i, n - 1) \o
       (IF StartsWith(output_list[n].url, RepeaterUrl(filtered_list[i]) \o " TG")
        THEN <<channels_csv.rows[n].name>> ELSE <<>>)

\* C14: in talkgroup mode, with the service's data unchanged during the run,
\* the zones table has one row for each retained repeater with at least one
\* pair, in order, none for the others, and the members of a repeater's row
\* are exactly the channels generated for that repeater.
C14_ZonePerRepeater ==
  (Finished(TRUE) /\ ~apiChanged) =>
    /\ Len(zones_csv.rows) = Cardinality({i \in 1..Len(filtered_list) : HasPairs(i)})
    /\ \A i \in 1..Len(filtered_list) :
         HasPairs(i) =>
           LET z == Cardinality({j \in 1..i : HasPairs(j)}) IN
             z <= Len(zones_csv.rows)
               /\ zones_csv.rows[z].members = OwnNames(i, Len(output_list))

(***************************************************************************)
(* Properties of failures                                                  *)
(***************************************************************************)

\* the command line lacks the parameter its selection type needs: -m for
\* mcc, -q for qth, -lat/-lon for gps
MissingParameter(a) ==
  \/ a.type = "mcc" /\ ~a.hasMcc
  \/ a.type \in {"qth", "gps"} /\ ~a.hasLoc

\* C15: when the parameter of the chosen selection type is missing, the run
\* does not end with status zero and writes no table, whatever the list
\* holds (the claim's statement on the exit status and on the tables).
C15_MissingParameterFails ==
  MissingParameter(args) =>
    /\ pc # "done"
    /\ ~channels_csv.exists
    /\ ~zones_csv.exists

\* C16: a table that cannot be written does not keep the other tables from
\* being written: when the run has ended on the failure to open channels.csv
\* in an output directory that exists, zones.csv has been written; when the
\* update of talkgroups.csv failed and the run is over, channels.csv and
\* zones.csv have been written.
C16_TablesIndependent ==
  /\ (pc = "crashed_channels" /\ output_dir) => zones_csv.exists
  /\ (Finished(TRUE) /\ run = 1
        /\ UpdateRaises(AfterTemplates(env, env.file), unique_talkgroups))
       => (channels_csv.exists /\ zones_csv.exists)

\* the talkgroups table the run started from: the uploaded template, else
\* the talkgroups.csv of the output directory (the one the first run left,
\* in a second run), else the default template
Supplied == AfterTemplates(env, IF run = 1 THEN env.file ELSE first.talkgroups)

\* the rows of talkgroups.csv behind the rows of the table the run started from
AppendedRows == (Len(Supplied.rows) + 1)..Len(talkgroups_csv.rows)

C18_FailedLookupFinal ==
  Finished(TRUE) =>
    \A i \in 1..Len(filtered_list) :
      filtered_list[i].id.s \in failed_first => OwnNames(i, Len(output_list)) = <<>>

(***************************************************************************)
(* Properties of the talkgroups table                                      *)
(***************************************************************************)

\* the update of talkgroups.csv has been done in this run
Updated == args.talkgroups /\ pc \notin {"start", "download", "filter", "process", "crashed"}

\* C19: once talkgroups.csv is updated, the rows of the table the run
\* started from (header rows and data rows, every cell) are its first rows,
\* unchanged and in their order, and no appended row carries a Radio ID
\* that a row of that table has.
C19_SuppliedRowsKept ==
  (Updated /\ Supplied.exists) =>
    /\ Len(talkgroups_csv.rows) >= Len(Supplied.rows)
    /\ \A k \in 1..Len(Supplied.rows) : talkgroups_csv.rows[k] = Supplied.rows[k]
    /\ \A k \in AppendedRows :
         \A m \in 2..Len(Supplied.rows) :
           Len(Supplied.rows[m]) > 1 => Supplied.rows[m][2] # talkgroups_csv.rows[k][2]

\* C19 witness: the table of an earlier run, with a data row, was updated
\* and got a new row
C19_Witness ==
  /\ Updated /\ run = 1
  /\ ~env.custom.exists /\ env.file.exists
  /\ Len(env.file.rows) > 2
  /\ Len(talkgroups_csv.rows) > Len(env.file.rows)

\* C20: once talkgroups.csv is updated, the rows of the table the run started
\* from come first and the appended rows follow in ascending numeric order
\* of their Radio ID, for ids returned as numbers and as digit strings.
C20_AppendedAscending ==
  (Updated /\ Supplied.exists) =>
    /\ \A k \in 1..Min(Len(Supplied.rows), Len(talkgroups_csv.rows)) :
         talkgroups_csv.rows[k] = Supplied.rows[k]
    /\ \A k, m \in AppendedRows :
         k < m => ~NumLess(talkgroups_csv.rows[m][2], talkgroups_csv.rows[k][2])

(***************************************************************************)
(* Names                                                                   *)
(***************************************************************************)

\* the standard run over one repeater has written its tables
NamedStd == ~args.talkgroups /\ pc = "done" /\ Len(filtered_list) = 1

\* name is "{callsign}.{abbr} TS{slot}" with abbr of 3 characters, the
\* callsign shortened only when the whole is longer than 16 characters
AliasShape(name, callsign, cityField, slot) ==
  LET city == Strip(BeforeSep(",", cityField)) IN
    \E q \in 0..Len(callsign) :
      LET rest == Drop(name, q) IN
        /\ Take(name, q) = Take(callsign, q)
        /\ Len(rest) = 8
        /\ Ch(rest, 1) = "."
        /\ \A i \in 1..3 :
             Ch(rest, 1 + i) = (IF i <= Len(city) THEN UpperCh(Ch(city, i)) ELSE "X")
        /\ Drop(rest, 4) = " TS" \o IntToStr(slot)
        /\ IF Len(callsign) + 8 <= 16 THEN q = Len(callsign) ELSE Len(name) = 16

\* C21: for every callsign, city and slot in {1,2} the standard-mode channel
\* alias is "{callsign}.{cityAbbrev} TS{slot}" when that is at most 16
\* characters; otherwise it has exactly 16 characters, ends with the
\* unshortened ".{cityAbbrev} TS{slot}" and starts with a prefix of the
\* callsign; cityAbbrev always has exactly 3 characters (the first 3 before
\* the first comma, trimmed, uppercased, padded with "X").  Stated of the
\* names format_channel puts in output_list and of the member names
\* write_zones_csv computes again.
C21_AliasShape ==
  NamedStd =>
    /\ Len(output_list) = 2
    /\ \A n \in 1..2 :
         /\ AliasShape(output_list[n].name, filtered_list[1].callsign,
                       filtered_list[1].city, n)
         /\ AliasShape(zones_csv.rows[1].members[n], filtered_list[1].callsign,
                       filtered_list[1].city, n)

\* the talkgroup run over one repeater has written its zone
NamedTg == args.talkgroups /\ pc = "done" /\ Len(filtered_list) = 1 /\ zones_csv.exists

\* C22: the zone name written for a repeater in talkgroup mode equals
\* zoneAlias(callsign, city): the callsign truncated to 16 characters, the
\* city dropped, when len(callsign) + 1 >= 16, and otherwise "{callsign}_"
\* followed by the city with its spaces removed, truncated so that the whole
\* has at most 16 characters.
C22_ZoneNameIsAlias ==
  NamedTg =>
    /\ Len(zones_csv.rows) = 1
    /\ LET callsign == filtered_list[1].callsign
           city == Strip(BeforeSep(",", filtered_list[1].city))
       IN zones_csv.rows[1].name =
            (IF Len(callsign) + 1 >= 16 THEN Take(callsign, 16)
             ELSE Take(callsign \o "_" \o Replace(city, " ", ""), 16))

(***************************************************************************)
(* Properties of the filters and of the normalization                      *)
(***************************************************************************)

\* the item passes the filters other than the power filter
PassesOtherFilters(a, item) ==
  /\ BandOk(a, item)
  /\ a.type = "mcc" => MccOk(a, item)
  /\ a.type \in {"qth", "gps"} => item.dist <= a.radius
  /\ a.six => Len(item.id.s) = 6
  /\ a.callsign # None => Contains(a.callsign, item.callsign)

\* the power of the item is undefined, zero or below the threshold
PowerTooLow(a, item) ==
  \/ ~item.hasPep
  \/ ~IsDigit(item.pep)
  \/ item.pep = "0"
  \/ a.pep # "0" /\ StrToInt(item.pep) < StrToInt(a.pep)

\* filter_list has run over a list with the power filter on, the command
\* line complete and every callsign one that can be normalized
PowerFiltered ==
  /\ pc # "filter"
  /\ args.pep # None
  /\ ~MissingParameter(args)
  /\ \A k \in 1..Len(json_list) : ~NormRaises(json_list[k])

\* C23: with the power filter on, filter_list skips a record exactly when its
\* power is undefined (pep missing or not a number), zero or, with a
\* threshold N > 0, below N; a record without a pep field is skipped and
\* does not make the selection fail.
C23_PowerFilter ==
  PowerFiltered =>
    /\ pc = "process"
    /\ \A i \in 1..Len(filtered_list) : \A k \in 1..Len(json_list) :
         IsSourceOf(k, filtered_list[i]) => ~PowerTooLow(args, json_list[k])
    /\ \A k \in 1..Len(json_list) :
         (PassesOtherFilters(args, json_list[k]) /\ ~PowerTooLow(args, json_list[k]))
         => \E i \in 1..Len(filtered_list) :
              Triple(filtered_list[i]) = RawTriple(json_list[k])

\* filter_list has run with the command line complete, and every record
\* the power filter reads has a pep field
Filtered ==
  /\ pc # "filter"
  /\ ~MissingParameter(args)
  /\ args.pep # None => \A k \in 1..Len(json_list) : json_list[k].hasPep

\* C24: every record that passes the filters is normalized without error: a
\* record with an empty callsign is retained with its id, written as a
\* decimal string, as callsign (the id a number or a numeric string), any
\* other callsign is replaced by its first whitespace-delimited token; no
\* record makes filter_list raise instead of retaining or skipping it.
C24_NormalizedWithoutError ==
  Filtered =>
    /\ pc = "process"
    /\ \A k \in 1..Len(json_list) :
         (PassesFilters(args, json_list[k]) /\ (json_list[k].callsign = "" \/ Strip(json_list[k].callsign) # ""))
         => \E i \in 1..Len(filtered_list) :
              /\ filtered_list[i].rx = json_list[k].rx
              /\ filtered_list[i].tx = json_list[k].tx
              /\ filtered_list[i].callsign =
                   (IF json_list[k].callsign = "" THEN json_list[k].id.s
                    ELSE FirstToken(json_list[k].callsign))

(***************************************************************************)
(* Properties of the channel names in talkgroup mode                       *)
(***************************************************************************)

\* the rows of the talkgroups table below its first row that name tg_id
NamingRows(tg_id) ==
  {k \in 2..Len(talkgroups_csv.rows) :
     /\ Len(talkgroups_csv.rows[k]) > 2
     /\ talkgroups_csv.rows[k][2] = tg_id
     /\ talkgroups_csv.rows[k][3] # ""}

\* the name resolved for tg_id: the table's (of the first row that has
\* one), else the live lookup's, else the id; a name is cut to 16 characters
NameByPrecedence(tg_id) ==
  IF talkgroups_csv.exists /\ NamingRows(tg_id) # {}
  THEN LET k == CHOOSE k \in NamingRows(tg_id) : \A m \in NamingRows(tg_id) : k <= m
       IN RStrip(Take(talkgroups_csv.rows[k][3], 16))
  ELSE IF tg_id \in DOMAIN env.names /\ env.names[tg_id] # ""
  THEN RStrip(Take(env.names[tg_id], 16))
  ELSE tg_id

\* C25: in talkgroup mode the name resolved for a channel's talkgroup id is
\* the name the talkgroups table has for that id when it has one, otherwise
\* the name the live lookup returns, otherwise the talkgroup id itself; the
\* lookup is not consulted when the table supplies a name (so its answer
\* shows in no row whose id the table names).
C25_NamePrecedence ==
  Finished(TRUE) =>
    \A n \in 1..Len(channels_csv.rows) :
      channels_csv.rows[n].contact = NameByPrecedence(channels_csv.rows[n].tgid)

\* the repeater of filtered_list that channel n of output_list was generated
\* from: the one whose id the channel's URL names
GeneratedFrom(n) ==
  CHOOSE i \in 1..Len(filtered_list) :
    StartsWith(output_list[n].url, RepeaterUrl(filtered_list[i]) \o " TG")

\* C26: in talkgroup mode with the city-prefix option on, the Channel Name
\* of every channel is "{cityAbbrev}.{resolvedName}" cut to 16 characters,
\* cityAbbrev being the abbreviation of the city of the repeater the channel
\* was generated from, also when another retained repeater of a different
\* city has the same frequency pair; with the option off it is the resolved
\* name cut to 16 characters.  (Blanks the cut leaves at the end are not
\* counted.)
C26_CityPrefix ==
  Finished(TRUE) =>
    /\ Len(channels_csv.rows) = Len(output_list)
    /\ \A n \in 1..Len(channels_csv.rows) :
         LET resolved == channels_csv.rows[n].contact
             city == filtered_list[GeneratedFrom(n)].city
         IN channels_csv.rows[n].name =
              (IF args.city_prefix
               THEN RStrip(Take(CityAbbr(city) \o "." \o resolved, 16))
               ELSE RStrip(Take(resolved, 16)))

(***************************************************************************)
(* Order                                                                   *)
(***************************************************************************)

\* the raw records retained record i comes from
SourcesOf(i) == {k \in 1..Len(json_list) : IsSourceOf(k, filtered_list[i])}

\* the repeaters of filtered_list that channel n of output_list names in
\* its URL
RepeatersOf(n) ==
  {i \in 1..Len(filtered_list) :
     \/ output_list[n].url = RepeaterUrl(filtered_list[i])
     \/ StartsWith(output_list[n].url, RepeaterUrl(filtered_list[i]) \o " TG")}

\* the name of the zone of retained record i in talkgroup mode
TgZoneName(i) ==
  Take(filtered_list[i].callsign \o "_"
         \o Replace(Strip(BeforeSep(",", filtered_list[i].city)), " ", "_"), 16)

\* C27: the list filter_list produces is a subsequence of the raw list
\* sorted ascending by (raw callsign, id as integer): every retained record
\* comes from a raw record and the retained records keep that order; the
\* rows of the channels table and of the zones table follow the same
\* repeater order.
C27_SortOrderKept ==
  /\ \A i \in 1..Len(filtered_list) : SourcesOf(i) # {}
  /\ \A i, j \in 1..Len(filtered_list) :
       i < j => \A a \in SourcesOf(i), b \in SourcesOf(j) :
                  a # b /\ ~KeyLess(json_list[b], json_list[a])
  /\ pc = "done" =>
       /\ Len(channels_csv.rows) = Len(output_list)
       /\ \A n \in 1..Len(output_list) :
            /\ channels_csv.rows[n].no = IntToStr(n)
            /\ channels_csv.rows[n].rx = output_list[n].rx
            /\ channels_csv.rows[n].tx = output_list[n].tx
            /\ RepeatersOf(n) # {}
       /\ \A m, n \in 1..Len(output_list) :
            m < n => \A i \in RepeatersOf(m), j \in RepeatersOf(n) : i <= j
       /\ \A z \in 1..Len(zones_csv.rows) : zones_csv.rows[z].no = IntToStr(z)
       /\ ~args.talkgroups =>
            \A z \in 1..Len(zones_csv.rows) :
              \A m \in 1..Len(zones_csv.rows[z].members) :
                LET i == (z - 1) * args.zone_capacity + ((m + 1) \div 2) IN
                  /\ i <= Len(filtered_list)
                  /\ zones_csv.rows[z].members[m] =
                       ChannelAlias(filtered_list[i].callsign, filtered_list[i].city,
                                    IF m % 2 = 1 THEN 1 ELSE 2)
       /\ args.talkgroups =>
            /\ \A z \in 1..Len(zones_csv.rows) :
                 \E i \in 1..Len(filtered_list) : zones_csv.rows[z].name = TgZoneName(i)
            /\ \A y, z \in 1..Len(zones_csv.rows) :
                 y < z => \E i, j \in 1..Len(filtered_list) :
                            /\ i < j
                            /\ zones_csv.rows[y].name = TgZoneName(i)
                            /\ zones_csv.rows[z].name = TgZoneName(j)

\* C27 witness: BM.json lists a repeater before one of a smaller key, both
\* are retained, and the tables of the finished run have rows of both
C27_Witness ==
  /\ pc = "done"
  /\ Len(json_list) >= 2
  /\ KeyLess(json_list[2], json_list[1])
  /\ Len(filtered_list) = Len(json_list)
  /\ \E m, n \in 1..Len(output_list) : RepeatersOf(m) # RepeatersOf(n)
  /\ Len(channels_csv.rows) = Len(output_list)
  /\ Len(zones_csv.rows) >= 2

(***************************************************************************)
(* Channel names of one table                                              *)
(***************************************************************************)

\* C28: no two rows of the channels table of a run have the same Channel
\* Name: retained repeaters that share callsign and city but differ in the
\* frequency pair, told apart by their turn values, get different channel
\* names, so that a name in a zone's member list identifies one channel.
C28_ChannelNamesDistinct ==
  \A m, n \in 1..Len(channels_csv.rows) :
    m # n => channels_csv.rows[m].name # channels_csv.rows[n].name

(***************************************************************************)
(* The callsign filter                                                     *)
(***************************************************************************)

\* C29: when a callsign substring filter is configured, the callsign of
\* every retained record, as stored in filtered_list after normalization
\* (the first whitespace-delimited token, or the id for an empty callsign),
\* contains the configured substring.
C29_CallsignFilter ==
  args.callsign # None =>
    \A i \in 1..Len(filtered_list) : Contains(args.callsign, filtered_list[i].callsign)

====
